---- MODULE Spec2Model ----
(***************************************************************************)
(* Model of src/cli.py (ncs-cli): the drum-array offset detector           *)
(* (_detect_drum_offsets), the address computation (_idx, field_offset),   *)
(* the bounds-checked byte read (_read_u8), the extraction loops           *)
(* (extract_drum_patterns) and the drums_extract command that chains them. *)
(*                                                                         *)
(* A bytes object is a sequence of integers in 0..255; Python address a    *)
(* is element a + 1 of the sequence.  An Optional[int] is the empty        *)
(* sequence (None) or a one-element sequence.                              *)
(***************************************************************************)
EXTENDS Integers, Sequences, FiniteSets

VARIABLES
    entry,            \* the function the caller invoked
    data,             \* the session buffer
    tracks, patterns, steps,
    track_stride, pattern_stride, base,
    vel_off, prob_off, choice_off, mask_off,   \* Optional[int] field bases
    track, pattern,   \* Optional[int] single-track / single-pattern filters
    mask_off_hint,    \* Optional[int] hint of _detect_drum_offsets
    auto_detect,      \* --auto-detect / --no-auto-detect
    candidates,       \* the local list `candidates` of _detect_drum_offsets
    detected,         \* the value _detect_drum_offsets returned (Optional record)
    pc,               \* the position of the running call
    track_range, pattern_range,  \* the two range objects of extract_drum_patterns
    t_pos, p_pos,     \* how many elements of each range the for loops consumed
    t, p, s,          \* the loop variables
    steps_list, track_entry, result,   \* the locals the loops build
    returned,         \* what was handed to the caller: <<>> or <<result>>
    raised,           \* the exception that ended the call: <<>> or <<its name>>
    supplied,         \* drums_extract: the parsed vel_hex, prob_hex, choice_hex, mask_hex
    reads             \* every address computed for a field read, with its coordinates

vars == <<entry, data, tracks, patterns, steps, track_stride, pattern_stride, base,
          vel_off, prob_off, choice_off, mask_off, track, pattern, mask_off_hint,
          auto_detect, candidates, detected, pc, track_range, pattern_range,
          t_pos, p_pos, t, p, s, steps_list, track_entry, result, returned, raised,
          supplied, reads>>

----------------------------------------------------------------------------
(* Optional values *)
None == <<>>
Some(x) == <<x>>
Val(o) == o[1]

(* Program constants *)
DEFAULT_VEL_OFF == 52596
DEFAULT_PROB_OFF == 52628
DEFAULT_CHOICE_OFF == 52660
DEFAULT_MASK_OFF == 52692
SCAN_STEP == 16
MAX_MASK_VALUE == 31
ZERO_RATIO_NUM == 3
ZERO_RATIO_DEN == 5

_DEFAULT_OFF_DIFFS ==
    [vel    |-> DEFAULT_VEL_OFF - DEFAULT_MASK_OFF,
     prob   |-> DEFAULT_PROB_OFF - DEFAULT_MASK_OFF,
     choice |-> DEFAULT_CHOICE_OFF - DEFAULT_MASK_OFF]

(* Bounds of the model *)
MaxTracks == 2
MaxPatterns == 2
MaxSteps == 2

----------------------------------------------------------------------------
(* Python primitives *)

SetMin(S) == CHOOSE x \in S : \A y \in S : x <= y
SetMax(S) == CHOOSE x \in S : \A y \in S : x >= y
IntMin(a, b) == IF a <= b THEN a ELSE b

\* data[a:b] for 0 <= a and 0 <= b: the end is clamped to len(data).
Slice(buf, a, b) == SubSeq(buf, a + 1, IntMin(b, Len(buf)))

\* seg.count(0)
CountZero(seg) == Cardinality({i \in 1..Len(seg) : seg[i] = 0})

\* max(seg), seg not empty
MaxByte(seg) == SetMax({seg[i] : i \in 1..Len(seg)})

\* range(start, stop) as a list
Range(start, stop) == [i \in 1..(IF stop > start THEN stop - start ELSE 0) |-> start + i - 1]

----------------------------------------------------------------------------
(* _detect_drum_offsets *)

Length(tr, pa, st) == tr * pa * st

\* zero_count / len(seg) < 0.6 compared exactly: 5 * zero_count < 3 * len(seg)
is_mask_candidate(seg) ==
    IF Len(seg) = 0 THEN FALSE
    ELSE IF ZERO_RATIO_DEN * CountZero(seg) < ZERO_RATIO_NUM * Len(seg) THEN FALSE
    ELSE IF MaxByte(seg) > MAX_MASK_VALUE THEN FALSE
    ELSE TRUE

\* faulty variant: the hint is accepted without the candidate predicate
HintCandidates_NoPredicate(buf, length, hint) ==
    IF hint # None /\ Val(hint) >= 0 /\ Val(hint) + length <= Len(buf)
    THEN <<Val(hint)>>
    ELSE <<>>

\* "if mask_off_hint is not None: ..." : the list candidates after the hint check
HintCandidates(buf, length, hint) ==
    IF hint # None
       /\ Val(hint) >= 0 /\ Val(hint) + length <= Len(buf)
       /\ is_mask_candidate(Slice(buf, Val(hint), Val(hint) + length))
    THEN <<Val(hint)>>
    ELSE <<>>

\* range(0, len(data) - length, 16): the stop value is excluded
ScanRange(n, length) == {off \in 0..(n - length - 1) : off % SCAN_STEP = 0}

\* faulty variant: no break, the last matching offset wins
ScanCandidates_LastHit(buf, length, cands) ==
    IF cands # <<>> THEN cands
    ELSE LET hits == {off \in ScanRange(Len(buf), length) :
                         is_mask_candidate(Slice(buf, off, off + length))}
         IN IF hits = {} THEN <<>> ELSE <<SetMax(hits)>>

\* "if not candidates: for off in range(...): ... break"
ScanCandidates(buf, length, cands) ==
    IF cands # <<>> THEN cands
    ELSE LET hits == {off \in ScanRange(Len(buf), length) :
                         is_mask_candidate(Slice(buf, off, off + length))}
         IN IF hits = {} THEN <<>> ELSE <<SetMin(hits)>>

DetectCandidates(buf, length, hint) ==
    ScanCandidates(buf, length, HintCandidates(buf, length, hint))

\* the three offsets derived from the mask base, and the mask base
DerivedOffsets(m) ==
    [velocity    |-> m + _DEFAULT_OFF_DIFFS.vel,
     probability |-> m + _DEFAULT_OFF_DIFFS.prob,
     choice      |-> m + _DEFAULT_OFF_DIFFS.choice,
     mask        |-> m]

\* faulty variant: the lower bound "off < 0" is not checked
OffsetOutOfBounds_NoLower(off, length, n) == off + length > n

\* "if off < 0 or off + length > len(data)"
OffsetOutOfBounds(off, length, n) == off < 0 \/ off + length > n

FieldNames == {"velocity", "probability", "choice", "mask"}

\* the value returned for the candidate list cands
DetectionResult(buf, length, cands) ==
    IF cands = <<>> THEN None
    ELSE LET offs == DerivedOffsets(cands[1])
         IN IF \E f \in FieldNames : OffsetOutOfBounds(offs[f], length, Len(buf))
            THEN None
            ELSE Some(offs)

_detect_drum_offsets(buf, tr, pa, st, hint) ==
    DetectionResult(buf, Length(tr, pa, st), DetectCandidates(buf, Length(tr, pa, st), hint))

----------------------------------------------------------------------------
(* Session buffers the inputs are drawn from.  A buffer is a background     *)
(* (kind), overwritten by a planted run of rl bytes at address X: the first *)
(* byte of the run is sp, the others are 0.                                 *)

Bg(kind, a) ==
    CASE kind = "hi"   -> 32 + (a % 200)
      [] kind = "zero" -> 0
      [] kind = "mix"  -> IF a % 3 = 0 THEN 1 + (a % 30) ELSE 0

MkData(n, kind, X, rl, sp) ==
    [i \in 1..n |->
        LET a == i - 1
        IN IF a = X /\ rl > 0 THEN sp
           ELSE IF X < a /\ a < X + rl THEN 0
           ELSE Bg(kind, a)]

BgKinds == {"hi", "zero", "mix"}
PlantOffsets == {96, 100, 112}
PlantFirst == {0, 31, 32}
DetectLens(length) == {0, length, 96 + length, 112 + length, 131 + length}
PlantLens(length) == {0, length, length + 16}
Hints == {None, Some(-1), Some(100), Some(102), Some(112), Some(DEFAULT_MASK_OFF)}
\* steps = 5 gives segments in which exactly 60% of the bytes can be zero
DetectSteps == (1..MaxSteps) \cup {5}

NoOffsets == [velocity |-> None, probability |-> None, choice |-> None, mask |-> None]

Idle ==
    /\ candidates = <<>>
    /\ detected = None
    /\ track_range = <<>> /\ pattern_range = <<>>
    /\ t_pos = 0 /\ p_pos = 0
    /\ t = 0 /\ p = 0 /\ s = 0
    /\ steps_list = <<>>
    /\ track_entry = [track |-> 0, patterns |-> <<>>]
    /\ result = <<>>
    /\ returned = <<>>
    /\ raised = <<>>
    /\ reads = {}

InitDetect ==
    /\ entry = "_detect_drum_offsets"
    /\ pc = "detect"
    /\ tracks \in 1..MaxTracks /\ patterns \in 1..MaxPatterns /\ steps \in DetectSteps
    /\ \E n \in DetectLens(Length(tracks, patterns, steps)), kind \in BgKinds,
          X \in PlantOffsets, rl \in PlantLens(Length(tracks, patterns, steps)),
          sp \in PlantFirst :
          data = MkData(n, kind, X, rl, sp)
    /\ mask_off_hint \in Hints
    /\ track_stride = 0 /\ pattern_stride = 0 /\ base = 0
    /\ vel_off = None /\ prob_off = None /\ choice_off = None /\ mask_off = None
    /\ track = None /\ pattern = None
    /\ auto_detect = TRUE
    /\ supplied = NoOffsets
    /\ Idle

\* one call of _detect_drum_offsets (lines 90-192)
DetectCall ==
    /\ pc = "detect"
    /\ candidates' = DetectCandidates(data, Length(tracks, patterns, steps), mask_off_hint)
    /\ detected' = _detect_drum_offsets(data, tracks, patterns, steps, mask_off_hint)
    /\ pc' = "detected"
    /\ UNCHANGED <<entry, data, tracks, patterns, steps, track_stride, pattern_stride,
                   base, vel_off, prob_off, choice_off, mask_off, track, pattern,
                   mask_off_hint, auto_detect, track_range, pattern_range, t_pos, p_pos,
                   t, p, s, steps_list, track_entry, result, returned, raised, supplied,
                   reads>>

NextDetect == DetectCall

SpecDetect == InitDetect /\ [][NextDetect]_vars

----------------------------------------------------------------------------
(* _read_u8, _idx, field_offset *)

Raise == [raised |-> TRUE, value |-> 0]
Return(v) == [raised |-> FALSE, value |-> v]

\* buf[off]: a negative index counts from the end; IndexError outside -len..len-1
BytesGetItem(buf, off) ==
    IF off >= Len(buf) \/ off < 0 - Len(buf) THEN Raise
    ELSE IF off >= 0 THEN Return(buf[off + 1])
    ELSE Return(buf[Len(buf) + off + 1])

\* faulty variant: the check "off < 0" is missing, so buf[off] wraps around
_read_u8_NoLower(buf, off) ==
    IF off >= Len(buf) THEN Raise ELSE BytesGetItem(buf, off)

_read_u8(buf, off) ==
    IF off < 0 \/ off >= Len(buf) THEN Raise ELSE BytesGetItem(buf, off)

\* faulty variants: the strides swapped; the pattern stride forgotten
_idx_SwappedStrides(tk, pt, st, ts, ps) == tk * ps + pt * ts + st
_idx_NoPatternStride(tk, pt, st, ts, ps) == tk * ts + pt + st

_idx(tk, pt, st, ts, ps) == tk * ts + pt * ps + st

\* the closure field_offset of extract_drum_patterns, with the base b it captures
field_offset(b, field_base, index) ==
    IF field_base = None THEN None ELSE Some(b + Val(field_base) + index)

----------------------------------------------------------------------------
(* extract_drum_patterns *)

FieldOrder == <<"velocity", "probability", "choice", "mask">>

FieldBase(f) ==
    CASE f = "velocity"    -> vel_off
      [] f = "probability" -> prob_off
      [] f = "choice"      -> choice_off
      [] f = "mask"        -> mask_off

\* faulty variant: every key is stored, an unconfigured field as 0
StepFields_All == FieldNames

\* the keys one iteration of the step loop stores: velocity always, the others
\* under "if ..._off is not None"
StepFields == {f \in FieldNames : f = "velocity" \/ FieldBase(f) # None}

\* the address of field f in the current iteration
FieldAddr(f) == field_offset(base, FieldBase(f), _idx(t, p, s, track_stride, pattern_stride))

\* the value stored under f: a read, or 0 for "if v_off is not None else 0"
FieldRead(f) ==
    IF FieldAddr(f) = None THEN Return(0) ELSE _read_u8(data, Val(FieldAddr(f)))

\* the positions in FieldOrder of the reads of this iteration that raise
RaisingReads == {i \in 1..4 : FieldOrder[i] \in StepFields /\ FieldRead(FieldOrder[i]).raised}

\* the reads this iteration makes: all of them, or those up to the first that raises
AttemptedReads ==
    {[field |-> FieldOrder[i], track |-> t, pattern |-> p, step |-> s,
      addr |-> Val(FieldAddr(FieldOrder[i]))] :
        i \in {j \in 1..4 : /\ FieldOrder[j] \in StepFields
                            /\ FieldAddr(FieldOrder[j]) # None
                            /\ \A k \in RaisingReads : j <= k}}

Meta ==
    [base |-> base, track_stride |-> track_stride, pattern_stride |-> pattern_stride,
     tracks |-> tracks, patterns |-> patterns, steps |-> steps,
     offsets |-> [velocity |-> vel_off, probability |-> prob_off,
                  choice |-> choice_off, mask |-> mask_off]]

Inputs == <<entry, data, tracks, patterns, steps, track_stride, pattern_stride, base,
            track, pattern, auto_detect, supplied>>
Offsets == <<vel_off, prob_off, choice_off, mask_off>>
Detection == <<mask_off_hint, candidates, detected>>

\* "if vel_off is None: raise click.UsageError" (lines 264-265)
ExtractUsageError ==
    /\ pc = "call"
    /\ vel_off = None
    /\ raised' = <<"UsageError">>
    /\ pc' = "raised"
    /\ UNCHANGED <<Inputs, Offsets, Detection, track_range, pattern_range, t_pos, p_pos,
                   t, p, s, steps_list, track_entry, result, returned, reads>>

\* lines 264-288: the result skeleton and the two ranges
ExtractBegin ==
    /\ pc = "call"
    /\ vel_off # None
    /\ result' = <<>>
    /\ track_range' = IF track = None THEN Range(0, tracks)
                      ELSE Range(Val(track), Val(track) + 1)
    /\ pattern_range' = IF pattern = None THEN Range(0, patterns)
                        ELSE Range(Val(pattern), Val(pattern) + 1)
    /\ t_pos' = 0
    /\ pc' = "for_t"
    /\ UNCHANGED <<Inputs, Offsets, Detection, p_pos, t, p, s, steps_list, track_entry,
                   returned, raised, reads>>

\* "for t in track_range: track_entry = {...}" (lines 290-291)
ForTrack ==
    /\ pc = "for_t"
    /\ t_pos < Len(track_range)
    /\ t' = track_range[t_pos + 1]
    /\ t_pos' = t_pos + 1
    /\ track_entry' = [track |-> track_range[t_pos + 1], patterns |-> <<>>]
    /\ p_pos' = 0
    /\ pc' = "for_p"
    /\ UNCHANGED <<Inputs, Offsets, Detection, track_range, pattern_range, p, s,
                   steps_list, result, returned, raised, reads>>

\* the track loop is exhausted: "return result" (line 315)
ExtractReturn ==
    /\ pc = "for_t"
    /\ t_pos = Len(track_range)
    /\ returned' = Some([meta |-> Meta, tracks |-> result])
    /\ pc' = "returned"
    /\ UNCHANGED <<Inputs, Offsets, Detection, track_range, pattern_range, t_pos, p_pos,
                   t, p, s, steps_list, track_entry, result, raised, reads>>

\* "for p in pattern_range: steps_list = []" (lines 292-293)
ForPattern ==
    /\ pc = "for_p"
    /\ p_pos < Len(pattern_range)
    /\ p' = pattern_range[p_pos + 1]
    /\ p_pos' = p_pos + 1
    /\ steps_list' = <<>>
    /\ s' = 0
    /\ pc' = "for_s"
    /\ UNCHANGED <<Inputs, Offsets, Detection, track_range, pattern_range, t_pos, t,
                   track_entry, result, returned, raised, reads>>

\* the pattern loop is exhausted: result["tracks"].append(track_entry) (line 314)
AppendTrack ==
    /\ pc = "for_p"
    /\ p_pos = Len(pattern_range)
    /\ result' = Append(result, track_entry)
    /\ pc' = "for_t"
    /\ UNCHANGED <<Inputs, Offsets, Detection, track_range, pattern_range, t_pos, p_pos,
                   t, p, s, steps_list, track_entry, returned, raised, reads>>

\* one iteration of "for s in range(steps)" in which every read succeeds
\* (lines 294-312)
StepBody ==
    /\ pc = "for_s"
    /\ s < steps
    /\ RaisingReads = {}
    /\ steps_list' = Append(steps_list, [f \in StepFields |-> FieldRead(f).value])
    /\ reads' = reads \cup AttemptedReads
    /\ s' = s + 1
    /\ UNCHANGED <<Inputs, Offsets, Detection, pc, track_range, pattern_range, t_pos,
                   p_pos, t, p, track_entry, result, returned, raised>>

\* one iteration in which a read raises IndexError: the exception leaves
\* extract_drum_patterns (and drums_extract, which does not catch it)
StepRaise ==
    /\ pc = "for_s"
    /\ s < steps
    /\ RaisingReads # {}
    /\ reads' = reads \cup AttemptedReads
    /\ raised' = <<"IndexError">>
    /\ pc' = "raised"
    /\ UNCHANGED <<Inputs, Offsets, Detection, track_range, pattern_range, t_pos, p_pos,
                   t, p, s, steps_list, track_entry, result, returned>>

\* the step loop is exhausted: track_entry["patterns"].append(...) (line 313)
AppendPattern ==
    /\ pc = "for_s"
    /\ s >= steps
    /\ track_entry' = [track_entry EXCEPT
                          !.patterns = Append(@, [pattern |-> p, steps |-> steps_list])]
    /\ pc' = "for_p"
    /\ UNCHANGED <<Inputs, Offsets, Detection, track_range, pattern_range, t_pos, p_pos,
                   t, p, s, steps_list, result, returned, raised, reads>>

ExtractLoop ==
    \/ ForTrack \/ ExtractReturn \/ ForPattern \/ AppendTrack
    \/ StepBody \/ StepRaise \/ AppendPattern

(* Layouts a direct call of extract_drum_patterns is given *)
ExtractLens(length) == {4, 3 * length + 8}
ExtractKinds == {"hi", "zero"}
Bases == {-1, 0, 1}
\* <<vel_off, prob_off, choice_off, mask_off>>
OffsetChoices ==
    {<<None, Some(0), None, None>>,
     <<Some(1), None, None, None>>,
     <<Some(1), Some(0), None, None>>,
     <<Some(1), None, Some(2), None>>,
     <<Some(1), None, None, Some(3)>>,
     <<Some(1), Some(0), Some(2), Some(3)>>}
\* <<pattern_stride, track_stride>>
StrideChoices(pa, st) ==
    {<<1, 1>>, <<st, pa * st>>, <<st + 1, pa * (st + 1) + 1>>}
\* <<track, pattern>>
FilterChoices(tr, pa) ==
    {<<None, None>>, <<Some(0), None>>, <<None, Some(pa - 1)>>,
     <<Some(tr), None>>, <<Some(-1), Some(pa)>>}

InitExtract ==
    /\ entry = "extract_drum_patterns"
    /\ pc = "call"
    /\ tracks \in 1..MaxTracks /\ patterns \in 1..MaxPatterns /\ steps \in 1..MaxSteps
    /\ \E n \in ExtractLens(Length(tracks, patterns, steps)), kind \in ExtractKinds :
          data = MkData(n, kind, 0, 0, 0)
    /\ base \in Bases
    /\ \E o \in OffsetChoices :
          vel_off = o[1] /\ prob_off = o[2] /\ choice_off = o[3] /\ mask_off = o[4]
    /\ \E st \in StrideChoices(patterns, steps) :
          pattern_stride = st[1] /\ track_stride = st[2]
    /\ \E f \in FilterChoices(tracks, patterns) : track = f[1] /\ pattern = f[2]
    /\ mask_off_hint = None
    /\ auto_detect = FALSE
    /\ supplied = NoOffsets
    /\ Idle

NextExtract == ExtractUsageError \/ ExtractBegin \/ ExtractLoop

SpecExtract == InitExtract /\ [][NextExtract]_vars

----------------------------------------------------------------------------
(* drums_extract: the command.  Its textual options are taken as already    *)
(* parsed by _parse_int; base, track_stride and pattern_stride are the       *)
(* values after "or 0".                                                      *)

\* lines 391-422: parse the options, run the detection when --auto-detect is
\* set and override the four offsets when it returns a result
CliCall ==
    /\ pc = "cli"
    /\ LET got == IF auto_detect
                  THEN _detect_drum_offsets(data, tracks, patterns, steps, supplied.mask)
                  ELSE None
       IN /\ detected' = got
          /\ vel_off' = IF got # None THEN Some(Val(got).velocity) ELSE supplied.velocity
          /\ prob_off' = IF got # None THEN Some(Val(got).probability)
                         ELSE supplied.probability
          /\ choice_off' = IF got # None THEN Some(Val(got).choice) ELSE supplied.choice
          /\ mask_off' = IF got # None THEN Some(Val(got).mask) ELSE supplied.mask
    /\ mask_off_hint' = IF auto_detect THEN supplied.mask ELSE None
    /\ candidates' = IF auto_detect
                     THEN DetectCandidates(data, Length(tracks, patterns, steps),
                                           supplied.mask)
                     ELSE <<>>
    /\ pc' = "call"
    /\ UNCHANGED <<Inputs, track_range, pattern_range, t_pos, p_pos, t, p, s, steps_list,
                   track_entry, result, returned, raised, reads>>

CliLens(length) == {131 + length}
CliPlantOffsets == {100, 112}
CliPlantLens(length) == {0, length}
CliBases == {0, 16}
\* the parsed vel_hex, prob_hex, choice_hex, mask_hex
CliOffsetChoices ==
    {[velocity |-> Some(DEFAULT_VEL_OFF), probability |-> Some(DEFAULT_PROB_OFF),
      choice |-> Some(DEFAULT_CHOICE_OFF), mask |-> Some(DEFAULT_MASK_OFF)],
     [velocity |-> Some(1), probability |-> None, choice |-> None, mask |-> Some(100)],
     [velocity |-> Some(1), probability |-> Some(0), choice |-> Some(2), mask |-> None]}
CliFilterChoices(pa) == {<<None, None>>, <<Some(0), None>>, <<None, Some(pa - 1)>>}

InitCli ==
    /\ entry = "drums_extract"
    /\ pc = "cli"
    /\ tracks \in 1..MaxTracks /\ patterns \in 1..MaxPatterns /\ steps \in 1..MaxSteps
    /\ \E n \in CliLens(Length(tracks, patterns, steps)), X \in CliPlantOffsets,
          rl \in CliPlantLens(Length(tracks, patterns, steps)) :
          data = MkData(n, "hi", X, rl, 0)
    /\ base \in CliBases
    /\ supplied \in CliOffsetChoices
    /\ \E st \in StrideChoices(patterns, steps) :
          pattern_stride = st[1] /\ track_stride = st[2]
    /\ \E f \in CliFilterChoices(patterns) : track = f[1] /\ pattern = f[2]
    /\ auto_detect \in BOOLEAN
    /\ vel_off = None /\ prob_off = None /\ choice_off = None /\ mask_off = None
    /\ mask_off_hint = None
    /\ Idle

NextCli == CliCall \/ ExtractBegin \/ ExtractLoop

SpecCli == InitCli /\ [][NextCli]_vars

(* Every entry point together *)
Init == InitDetect \/ InitExtract \/ InitCli

Next == DetectCall \/ CliCall \/ ExtractUsageError \/ ExtractBegin \/ ExtractLoop

Spec == Init /\ [][Next]_vars

----------------------------------------------------------------------------
(* Properties of _detect_drum_offsets, checked under SpecDetect *)

Len0 == Length(tracks, patterns, steps)

\* the segment of n bytes at address a lies inside the buffer
SegmentInside(a, n) == a >= 0 /\ a + n <= Len(data)

\* the candidate predicate as the specification words it: at least 60% zero
\* bytes and no byte above 0x1F
MeetsPredicate(a, n) ==
    /\ n > 0
    /\ 5 * Cardinality({i \in (a + 1)..(a + n) : data[i] = 0}) >= 3 * n
    /\ \A i \in (a + 1)..(a + n) : data[i] <= 31

AllZeroAt(a, n) == \A i \in (a + 1)..(a + n) : data[i] = 0

\* the four offsets the specification derives from mask base m
ExpectedOffsets(m) ==
    [velocity |-> m - 96, probability |-> m - 64, choice |-> m - 32, mask |-> m]

HintAccepted ==
    /\ mask_off_hint # None
    /\ SegmentInside(Val(mask_off_hint), Len0)
    /\ MeetsPredicate(Val(mask_off_hint), Len0)

\* C4: a detection returns the no-candidate signal or all four offsets, each
\* with its whole segment inside the buffer, the mask segment meeting the
\* candidate predicate and the other three at the fixed deltas from the mask.
C4_AllOrNothing ==
    pc = "detected" =>
        \/ detected = None
        \/ /\ Len(detected) = 1
           /\ DOMAIN Val(detected) = FieldNames
           /\ \A f \in FieldNames : SegmentInside(Val(detected)[f], Len0)
           /\ MeetsPredicate(Val(detected).mask, Len0)
           /\ Val(detected) = ExpectedOffsets(Val(detected).mask)

C4_Witness ==
    /\ pc = "detected" /\ detected # None
    /\ mask_off_hint = Some(102) /\ Val(detected).mask = 102
    /\ Len0 = 5
    /\ Cardinality({i \in 103..107 : data[i] = 0}) = 3

InclusiveHits ==
    {off \in 0..(Len(data) - Len0) : off % 16 = 0 /\ MeetsPredicate(off, Len0)}

\* C6: when no hint is accepted the accepted mask base is the smallest
\* multiple of 16 in 0..len-length whose segment meets the predicate, and
\* there is no candidate only if none of them meets it.
C6_ScanInclusive ==
    (pc = "detected" /\ ~HintAccepted) =>
        candidates = IF InclusiveHits = {} THEN <<>> ELSE <<SetMin(InclusiveHits)>>

\* C7: an accepted hint is the mask base whatever the scan would find; a
\* hint that is absent, out of bounds or fails the predicate changes nothing.
C7_HintPrecedence ==
    pc = "detected" =>
        /\ HintAccepted =>
              /\ candidates = <<Val(mask_off_hint)>>
              /\ \/ detected = Some(ExpectedOffsets(Val(mask_off_hint)))
                 \/ /\ detected = None
                    /\ \E f \in FieldNames :
                          ~SegmentInside(ExpectedOffsets(Val(mask_off_hint))[f], Len0)
        /\ ~HintAccepted =>
              /\ candidates = DetectCandidates(data, Len0, None)
              /\ detected = _detect_drum_offsets(data, tracks, patterns, steps, None)

C7_Witness ==
    /\ pc = "detected" /\ HintAccepted
    /\ Val(mask_off_hint) = 112
    /\ MeetsPredicate(96, Len0)
    /\ detected = Some(ExpectedOffsets(112))

----------------------------------------------------------------------------
(* Properties of extract_drum_patterns, checked under SpecExtract *)

\* the selected tracks and patterns, in ascending order
SelTracks == IF track = None THEN [i \in 1..tracks |-> i - 1] ELSE <<Val(track)>>
SelPatterns == IF pattern = None THEN [i \in 1..patterns |-> i - 1] ELSE <<Val(pattern)>>

ConfiguredFields == {f \in FieldNames : FieldBase(f) # None}

\* the address the specification gives field f at (tt, pp, ss)
SpecAddr(f, tt, pp, ss) ==
    base + Val(FieldBase(f)) + tt * track_stride + pp * pattern_stride + ss

InBuffer(a) == 0 <= a /\ a < Len(data)

\* C1: an address outside [0, len) for any configured field at any visited
\* (track, pattern, step) ends the call in an error with nothing returned,
\* whatever had been read completely before.
C1_FailFast ==
    /\ (\E r \in reads : ~InBuffer(r.addr)) =>
           pc = "raised" /\ raised = <<"IndexError">> /\ returned = <<>>
    /\ pc = "raised" => returned = <<>>
    /\ returned # <<>> =>
           \A i \in 1..Len(SelTracks), j \in 1..Len(SelPatterns), ss \in 0..(steps - 1),
              f \in ConfiguredFields :
                 InBuffer(SpecAddr(f, SelTracks[i], SelPatterns[j], ss))

C1_Witness ==
    /\ pc = "raised" /\ raised = <<"IndexError">> /\ returned = <<>>
    /\ Len(result) >= 1
    /\ \E r \in reads : r.addr >= Len(data)

\* C2: a returned result holds, for every selected (t, p, s) and configured
\* field f, the byte at base + f_base + t*track_stride + p*pattern_stride + s;
\* tracks and patterns are in ascending order and every pattern has exactly
\* `steps` step records in step order.
C2_RoundTrip ==
    pc = "returned" =>
        LET res == Val(returned).tracks
        IN /\ Len(res) = Len(SelTracks)
           /\ \A i \in 1..Len(res) :
                 /\ res[i].track = SelTracks[i]
                 /\ Len(res[i].patterns) = Len(SelPatterns)
                 /\ \A j \in 1..Len(SelPatterns) :
                       /\ res[i].patterns[j].pattern = SelPatterns[j]
                       /\ Len(res[i].patterns[j].steps) = steps
                       /\ \A k \in 1..steps, f \in ConfiguredFields :
                             /\ InBuffer(SpecAddr(f, SelTracks[i], SelPatterns[j], k - 1))
                             /\ res[i].patterns[j].steps[k][f] =
                                   data[SpecAddr(f, SelTracks[i], SelPatterns[j], k - 1) + 1]

C2_Witness ==
    /\ pc = "returned"
    /\ Len(Val(returned).tracks) = 2
    /\ Len(Val(returned).tracks[2].patterns) = 2
    /\ steps = 2
    /\ ConfiguredFields = FieldNames
    /\ track_stride > pattern_stride
    /\ Val(returned).tracks[2].patterns[2].steps[2]["mask"] >= 32

\* C3: every step record of a returned result has velocity, and has
\* probability, choice and mask exactly when that field base is configured.
C3_FieldPresence ==
    pc = "returned" =>
        \A i \in 1..Len(Val(returned).tracks) :
            \A j \in 1..Len(Val(returned).tracks[i].patterns) :
                \A k \in 1..Len(Val(returned).tracks[i].patterns[j].steps) :
                    LET sd == Val(returned).tracks[i].patterns[j].steps[k]
                    IN /\ "velocity" \in DOMAIN sd
                       /\ \A f \in {"probability", "choice", "mask"} :
                             f \in DOMAIN sd <=> FieldBase(f) # None

C3_Witness ==
    /\ pc = "returned"
    /\ prob_off = None /\ choice_off # None /\ mask_off = None
    /\ base = 0 /\ \A i \in 1..Len(data) : data[i] = 0
    /\ Len(Val(returned).tracks) >= 1
    /\ DOMAIN Val(returned).tracks[1].patterns[1].steps[1] = {"velocity", "choice"}

Triples == (0..(tracks - 1)) \X (0..(patterns - 1)) \X (0..(steps - 1))

AddressOf(fb, x) ==
    Val(field_offset(base, Some(fb), _idx(x[1], x[2], x[3], track_stride, pattern_stride)))

\* C8: when track_stride >= patterns*pattern_stride and pattern_stride >= steps,
\* two different in-range triples never share an address of one field.
C8_Injective ==
    (track_stride >= patterns * pattern_stride /\ pattern_stride >= steps) =>
        \A fb \in {0, 3} :
            \A x \in Triples, y \in Triples :
                x # y => AddressOf(fb, x) # AddressOf(fb, y)

C8_Witness ==
    /\ pc = "returned"
    /\ tracks = 2 /\ patterns = 2 /\ steps = 2
    /\ track_stride = patterns * pattern_stride /\ pattern_stride = steps
    /\ Cardinality({r.addr : r \in {q \in reads : q.field = "velocity"}}) = 8

\* C9: every coordinate extract_drum_patterns hands to _idx is in range:
\* 0 <= track < tracks, 0 <= pattern < patterns, 0 <= step < steps.
C9_IndexInRange ==
    \A r \in reads :
        /\ 0 <= r.track /\ r.track < tracks
        /\ 0 <= r.pattern /\ r.pattern < patterns
        /\ 0 <= r.step /\ r.step < steps

----------------------------------------------------------------------------
(* Property of drums_extract, checked under SpecCli *)

\* C10: after a successful detection every field read of the extraction is at
\* detected_f + t*track_stride + p*pattern_stride + s, whatever base is; after
\* a failed detection the offsets handed to the extraction are the supplied ones.
C10_DetectedAbsolute ==
    (entry = "drums_extract" /\ pc # "cli") =>
        /\ detected # None =>
              \A r \in reads :
                  r.addr = Val(detected)[r.field] + r.track * track_stride
                           + r.pattern * pattern_stride + r.step
        /\ detected = None =>
              <<vel_off, prob_off, choice_off, mask_off>> =
                  <<supplied.velocity, supplied.probability, supplied.choice, supplied.mask>>
====
